---- MODULE Spec2Model ----
(***************************************************************************)
(* NZBGetDataUpdateCoordinator (homeassistant/components/nzbget/           *)
(* coordinator.py): a polling coordinator that fetches status and history  *)
(* in an executor thread under a 4 second asyncio timeout, diffs the       *)
(* history against the retained set of (Name, Category, Status) triples    *)
(* and fires one nzbget_download_complete event per new triple.            *)
(*                                                                         *)
(* The event loop side (_async_update_data) and the executor side          *)
(* (_update_data, _check_completed_downloads) are separate processes: the  *)
(* timeout cancels the await, it does not stop the executor thread.        *)
(***************************************************************************)
EXTENDS Integers, Sequences, FiniteSets, Bags, TLC

\* ---- bounds of the model ----
MaxJobs == 2        \* executor threads that can be inside _update_data at once
MaxLen == 2         \* longest history list a remote call returns

\* ---- program constants ----
Timeout == 4        \* asyncio.timeout(4)
Interval == 5       \* update_interval=timedelta(seconds=5)

\* ---- inputs ----
\* History items.  The two differ in Status alone: what identifies an item
\* is the whole (Name, Category, Status) triple.
Items ==
    { [Name |-> "A", Category |-> "cat1", Status |-> "SUCCESS"],
      [Name |-> "A", Category |-> "cat1", Status |-> "FAILURE"] }

Histories == UNION { [1..n -> Items] : n \in 0..MaxLen }

StatusVals == {"st1", "st2"}

Jobs == 1..MaxJobs

\* What a blocking client call can do besides returning or hanging.
ClientErrors == {"NZBGetAPIException", "Exception"}

NoData == [status |-> "none", downloads |-> <<>>]

\* ---- pure helpers ----

\* (x["Name"], x["Category"], x["Status"])
TripleOf(x) == <<x.Name, x.Category, x.Status>>

\* {(x["Name"], x["Category"], x["Status"]) for x in history}
ActualCompletedDownloads(history) ==
    { TripleOf(history[i]) : i \in 1..Len(history) }

\* actual_completed_downloads.difference(self._completed_downloads)
Difference(actual, previous) == actual \ previous

\* {"name": download[0], "category": download[1], "status": download[2]}
EventData(download) ==
    [name |-> download[1], category |-> download[2], status |-> download[3]]

\* Variant of ReturnValue: the history is returned with repeated items
\* removed, not as the client gave it.
ReturnValueDeduplicated(status, history) ==
    LET keep == { i \in 1..Len(history) :
                    \A j \in 1..(i - 1) : history[j] # history[i] }
        kth(k) == CHOOSE i \in keep :
                    Cardinality({ j \in keep : j < i }) = k - 1
    IN [status |-> status,
        downloads |-> [k \in 1..Cardinality(keep) |-> history[kth(k)]]]

\* {"status": status, "downloads": history}
ReturnValue(status, history) == [status |-> status, downloads |-> history]

\* Variant of Propagate: no except clause, every exception leaves
\* _async_update_data as it is.
PropagateUnwrapped(exc) == [kind |-> exc, cause |-> "none"]

\* except NZBGetAPIException as error: raise UpdateFailed(...) from error
\* Any other exception leaves _async_update_data as it is.
Propagate(exc) ==
    IF exc = "NZBGetAPIException"
    THEN [kind |-> "UpdateFailed", cause |-> exc]
    ELSE [kind |-> exc, cause |-> "none"]

\* async with asyncio.timeout(4): the pending await is cancelled and the
\* context manager turns the CancelledError into TimeoutError.
Expired == [kind |-> "TimeoutError", cause |-> "CancelledError"]

\* The baseline a CycleResult stands for: whether there is one, and the set
\* of triples of its history list.
Baseline(value) ==
    [known |-> value # NoData,
     triples |-> ActualCompletedDownloads(value.downloads)]

NoError == [kind |-> "none", cause |-> "none"]

\* The triple whose reports are followed from poll to poll.
Watched == <<"A", "cat1", "SUCCESS">>

\* No train-schedule config entry is set up next to the coordinator.
NoEntry == [state |-> "none"]

VARIABLES
    elapsed,                    \* time units since the last refresh started
    loop,                       \* "idle" | "waiting": _async_update_data awaiting
    current,                    \* job of the latest refresh, 0 before the first
    completed_downloads_init,   \* self._completed_downloads_init
    completed_downloads,        \* self._completed_downloads
    data,                       \* coordinator.data, the exposed CycleResult
    base,                       \* what data held when the latest refresh started
    streak,                     \* how the refreshes before the latest one went
    job,                        \* per executor thread: its run of _update_data
                                \* and the refresh cycle that submitted it
    entry                       \* the train-schedule config entry of
                                \* tests/components/trafikverket_train

vars == <<elapsed, loop, current, completed_downloads_init,
          completed_downloads, data, base, streak, job, entry>>

\* Fields of a job.  pc, status, history, exc, tmp, retval are the thread's
\* position and locals; outcome and error are how the refresh that submitted
\* it ended; fired, calls, writes record what the thread did.
FreeJob ==
    [pc |-> "free", status |-> "none", history |-> <<>>, exc |-> "none",
     tmp |-> {}, retval |-> NoData,
     outcome |-> "none", error |-> NoError,
     fired |-> EmptyBag, calls |-> [status |-> 0, history |-> 0],
     writes |-> 0]

Running(c) == job[c].pc \notin {"free", "returned", "raised"}

\* The thread of job c leaves _update_data with record r.  When the refresh
\* that submitted it has already ended, nothing waits for the future: the
\* thread is free again and the record is dropped.
Leave(c, r) == IF job[c].outcome = "waiting" THEN r ELSE FreeJob

\* Record r of a thread still inside _update_data.  Once the await on it
\* was cancelled its return value is never read, so the status it holds only
\* for that value is forgotten.
Forget(r) ==
    IF r.outcome = "waiting" \/ r.pc \in {"returned", "raised"}
    THEN r
    ELSE [r EXCEPT !.status = "none"]

Init ==
    /\ elapsed = Interval
    /\ loop = "idle"
    /\ current = 0
    /\ completed_downloads_init = FALSE
    /\ completed_downloads = {}
    /\ data = NoData
    /\ base = Baseline(NoData)
    /\ streak = "none"
    /\ job = [c \in Jobs |-> FreeJob]
    /\ entry = NoEntry

\* The refreshes that precede the one about to start, as far as Watched
\* goes: "had" when the last one succeeded with Watched in its history and
\* was not the first to succeed, "lost" when the last one succeeded without it and the one right before
\* succeeded with it, "none" otherwise.
Streak ==
    IF current = 0 \/ job[current].outcome # "success" THEN "none"
    ELSE IF Watched \in Baseline(data).triples
         THEN (IF base.known THEN "had" ELSE "none")
    ELSE IF streak = "had" THEN "lost"
    ELSE "none"

\* ---- scheduling (DataUpdateCoordinator, the host framework) ----

\* Variant of DeadlineReached: the await runs under no timeout.
DeadlineNever == FALSE

\* with asyncio.timeout(4): the deadline of the pending await is reached.
DeadlineReached == loop = "waiting" /\ elapsed >= Timeout

\* Time passes to the next instant at which a timer is due: the deadline of
\* the timeout, then the next poll.  The timeout callback runs when its
\* deadline is reached, so time does not pass the deadline while the await
\* is pending.  All instants from Interval on are alike.
Tick ==
    /\ elapsed < Interval
    /\ ~DeadlineReached
    /\ elapsed' = IF elapsed < Timeout THEN Timeout ELSE Interval
    /\ UNCHANGED <<loop, current, completed_downloads_init,
                   completed_downloads, data, base, streak, job, entry>>

\* The scheduler starts a refresh when none is pending and the interval
\* since the previous start has passed (at once after construction).
TickDue == loop = "idle" /\ elapsed >= Interval

\* coordinator.data = await self._async_update_data()
Publish(value) == data' = value

\* ---- _async_update_data, event loop side ----

\* async with asyncio.timeout(4):
\*     ... self.hass.async_add_executor_job(_update_data)
\* The job goes to a thread that is not inside _update_data; records of
\* finished jobs are dropped.
StartRefresh ==
    /\ TickDue
    /\ \E c \in Jobs :
        /\ ~Running(c)
        /\ \A d \in Jobs : d < c => Running(d)
        /\ current' = c
        /\ job' = [d \in Jobs |->
                     IF d = c
                     THEN [FreeJob EXCEPT !.pc = "status",
                                          !.outcome = "waiting"]
                     ELSE IF Running(d) THEN job[d] ELSE FreeJob]
    /\ elapsed' = 0
    /\ loop' = "waiting"
    /\ base' = Baseline(data)
    /\ streak' = Streak
    /\ UNCHANGED <<completed_downloads_init, completed_downloads, data,
                   entry>>

\* return await ...: the executor job returned its dict in time.
AwaitReturn ==
    /\ loop = "waiting"
    /\ job[current].pc = "returned"
    /\ loop' = "idle"
    /\ job' = [job EXCEPT ![current].outcome = "success"]
    /\ Publish(job[current].retval)
    /\ UNCHANGED <<elapsed, current, completed_downloads_init,
                   completed_downloads, base, streak, entry>>

\* Variant of AwaitRaise: the except clause also drops the baseline.
AwaitRaiseResetting ==
    /\ loop = "waiting"
    /\ job[current].pc = "raised"
    /\ loop' = "idle"
    /\ job' = [job EXCEPT ![current].outcome = "failed",
                          ![current].error = Propagate(job[current].exc)]
    /\ completed_downloads_init' = FALSE
    /\ completed_downloads' = {}
    /\ UNCHANGED <<elapsed, current, data, base, streak, entry>>

\* The executor job raised: the exception reaches the except clause.
AwaitRaise ==
    /\ loop = "waiting"
    /\ job[current].pc = "raised"
    /\ loop' = "idle"
    /\ job' = [job EXCEPT ![current].outcome = "failed",
                          ![current].error = Propagate(job[current].exc)]
    /\ UNCHANGED <<elapsed, current, completed_downloads_init,
                   completed_downloads, data, base, streak, entry>>

\* The deadline is reached: the await is cancelled, TimeoutError leaves
\* _async_update_data.  The executor thread is not interrupted.
TimeoutExpire ==
    /\ DeadlineReached
    /\ loop' = "idle"
    /\ job' = [job EXCEPT ![current] =
                    Forget([@ EXCEPT !.outcome = "failed",
                                     !.error = Expired])]
    /\ UNCHANGED <<elapsed, current, completed_downloads_init,
                   completed_downloads, data, base, streak, entry>>

\* ---- _update_data, executor thread c ----

\* Variant of NzbgetStatus: a failed status() call is made again.
NzbgetStatusRetrying(c) ==
    /\ job[c].pc = "status"
    /\ \/ \E v \in StatusVals :
            job' = [job EXCEPT ![c] =
                        Forget([@ EXCEPT !.pc = "history", !.status = v,
                                         !.calls.status = @ + 1])]
       \/ job' = [job EXCEPT ![c].calls.status = @ + 1]
    /\ UNCHANGED <<elapsed, loop, current, completed_downloads_init,
                   completed_downloads, data, base, streak, entry>>

\* status = self.nzbget.status()
NzbgetStatus(c) ==
    /\ job[c].pc = "status"
    /\ \/ \E v \in StatusVals :
            job' = [job EXCEPT ![c] =
                        Forget([@ EXCEPT !.pc = "history", !.status = v,
                                         !.calls.status = @ + 1])]
       \/ \E e \in ClientErrors :
            job' = [job EXCEPT ![c] = Leave(c,
                        [@ EXCEPT !.pc = "raised", !.exc = e,
                                  !.calls.status = @ + 1])]
    /\ UNCHANGED <<elapsed, loop, current, completed_downloads_init,
                   completed_downloads, data, base, streak, entry>>

\* history = self.nzbget.history()
NzbgetHistory(c) ==
    /\ job[c].pc = "history"
    /\ \/ \E h \in Histories :
            job' = [job EXCEPT ![c].pc = "check", ![c].history = h,
                               ![c].calls.history = @ + 1]
       \/ \E e \in ClientErrors :
            job' = [job EXCEPT ![c] = Leave(c,
                        [@ EXCEPT !.pc = "raised", !.exc = e,
                                  !.calls.history = @ + 1])]
    /\ UNCHANGED <<elapsed, loop, current, completed_downloads_init,
                   completed_downloads, data, base, streak, entry>>

\* ---- _check_completed_downloads(history), same thread ----

\* if self._completed_downloads_init:
CheckInit(c) ==
    /\ job[c].pc = "check"
    /\ job' = [job EXCEPT ![c].pc = IF completed_downloads_init
                                    THEN "diff" ELSE "store"]
    /\ UNCHANGED <<elapsed, loop, current, completed_downloads_init,
                   completed_downloads, data, base, streak, entry>>

\* tmp_completed_downloads = list(actual.difference(self._completed_downloads))
CheckDiff(c) ==
    /\ job[c].pc = "diff"
    /\ LET tmp == Difference(ActualCompletedDownloads(job[c].history),
                             completed_downloads)
       IN job' = [job EXCEPT ![c].tmp = tmp,
                             ![c].pc = IF tmp = {} THEN "store" ELSE "fire"]
    /\ UNCHANGED <<elapsed, loop, current, completed_downloads_init,
                   completed_downloads, data, base, streak, entry>>

\* Variant of FireEvent: one event per history item with the triple, not one
\* per triple.
FireEventPerItem(c) ==
    /\ job[c].pc = "fire"
    /\ \E download \in job[c].tmp :
        LET n == Cardinality({ i \in 1..Len(job[c].history) :
                                TripleOf(job[c].history[i]) = download })
        IN job' = [job EXCEPT
                     ![c].fired = @ (+) [e \in {EventData(download)} |-> n],
                     ![c].tmp = @ \ {download},
                     ![c].pc = IF job[c].tmp = {download}
                               THEN "store" ELSE "fire"]
    /\ UNCHANGED <<elapsed, loop, current, completed_downloads_init,
                   completed_downloads, data, base, streak, entry>>

\* for download in tmp_completed_downloads: self.hass.bus.fire(...)
\* One iteration; the list of a set has no defined order.
FireEvent(c) ==
    /\ job[c].pc = "fire"
    /\ \E download \in job[c].tmp :
        job' = [job EXCEPT
                  ![c].fired = @ (+) SetToBag({EventData(download)}),
                  ![c].tmp = @ \ {download},
                  ![c].pc = IF job[c].tmp = {download}
                            THEN "store" ELSE "fire"]
    /\ UNCHANGED <<elapsed, loop, current, completed_downloads_init,
                   completed_downloads, data, base, streak, entry>>

\* self._completed_downloads = actual_completed_downloads
StoreCompleted(c) ==
    /\ job[c].pc = "store"
    /\ completed_downloads' = ActualCompletedDownloads(job[c].history)
    /\ job' = [job EXCEPT ![c].pc = "store_init", ![c].writes = @ + 1]
    /\ UNCHANGED <<elapsed, loop, current, completed_downloads_init, data,
                   base, streak, entry>>

\* Variant of StoreInit: the flag is set only when the history has items.
StoreInitUnlessEmpty(c) ==
    /\ job[c].pc = "store_init"
    /\ completed_downloads_init' = (job[c].history # <<>>)
    /\ job' = [job EXCEPT ![c] = Leave(c,
                 [@ EXCEPT !.pc = "returned",
                           !.writes = @ + 1,
                           !.retval = ReturnValue(job[c].status,
                                                  job[c].history)])]
    /\ UNCHANGED <<elapsed, loop, current, completed_downloads, data,
                   base, streak, entry>>

\* self._completed_downloads_init = True, then back in _update_data:
\* return {"status": status, "downloads": history}
StoreInit(c) ==
    /\ job[c].pc = "store_init"
    /\ completed_downloads_init' = TRUE
    /\ job' = [job EXCEPT ![c] = Leave(c,
                 [@ EXCEPT !.pc = "returned",
                           !.writes = @ + 1,
                           !.retval = ReturnValue(job[c].status,
                                                  job[c].history)])]
    /\ UNCHANGED <<elapsed, loop, current, completed_downloads, data,
                   base, streak, entry>>

Worker(c) ==
    \/ NzbgetStatus(c)
    \/ NzbgetHistory(c)
    \/ CheckInit(c)
    \/ CheckDiff(c)
    \/ FireEvent(c)
    \/ StoreCompleted(c)
    \/ StoreInit(c)

Next ==
    \/ Tick
    \/ StartRefresh
    \/ AwaitReturn
    \/ AwaitRaise
    \/ TimeoutExpire
    \/ \E c \in Jobs : Worker(c)

Spec == Init /\ [][Next]_vars

\* ======================================================================
\* The train-schedule config entry, as the tests of
\* tests/components/trafikverket_train/test_init.py set it up.  The
\* integration and the config-entry machinery it runs in are not part of
\* the sources at hand; their steps below follow what the tests expect.
\* ======================================================================

\* version and minor_version of the entries the tests create.
TestedVersions == { <<1, 1>>, <<2, 1>>, <<3, 1>> }

\* unique_id of the entries the tests create ("none": not given).
TestedUniqueIds == {"321", "none"}

\* The version the integration migrates entries to.
CurrentVersion == <<2, 1>>

\* What the patched async_search_train_stations does: "one" returns one
\* station per search, "multiple" returns several, the others are raised.
SearchFailures ==
    {"InvalidAuthentication", "NoTrainStationFound", "UnknownError",
     "Exception"}

SearchOutcomes == {"one", "multiple"} \cup SearchFailures

\* What the patched async_get_train_station_from_signature does.
StationOutcomes == {"ok", "InvalidAuthentication", "NoTrainStationFound"}

\* from and to of ENTRY_CONFIG, station names.
ENTRY_CONFIG == [from |-> "Stockholm C", to |-> "Uppsala C"]

\* The signature of the one station a search for a name returns.
Signature(name) ==
    IF name = "Stockholm C" THEN "Cst"
    ELSE IF name = "Uppsala C" THEN "U"
    ELSE name

\* MockConfigEntry(..., version=v[1], minor_version=v[2], unique_id=u),
\* added to hass under the patches search and station.
MockConfigEntry(v, u, search, station) ==
    [state |-> "NOT_LOADED", step |-> "new",
     version |-> v[1], minor_version |-> v[2],
     data |-> ENTRY_CONFIG, unique_id |-> u,
     search |-> search, station |-> station,
     created |-> [version |-> v, unique_id |-> u],
     stops_calls |-> 0, unloaded |-> FALSE]

TrainInit ==
    /\ elapsed = Interval
    /\ loop = "idle"
    /\ current = 0
    /\ completed_downloads_init = FALSE
    /\ completed_downloads = {}
    /\ data = NoData
    /\ base = Baseline(NoData)
    /\ streak = "none"
    /\ job = [c \in Jobs |-> FreeJob]
    /\ \E v \in TestedVersions, u \in TestedUniqueIds,
          search \in SearchOutcomes, station \in StationOutcomes :
            entry = MockConfigEntry(v, u, search, station)

coordinator_vars ==
    <<elapsed, loop, current, completed_downloads_init,
      completed_downloads, data, base, streak, job>>

\* await hass.config_entries.async_setup(entry.entry_id): an entry that is
\* not at the current version is migrated first.
AsyncSetup ==
    /\ entry.state = "NOT_LOADED"
    /\ entry.step = "new"
    /\ entry' = [entry EXCEPT
                   !.step = IF <<entry.version, entry.minor_version>>
                                 = CurrentVersion
                            THEN "setup" ELSE "migrate"]
    /\ UNCHANGED coordinator_vars

\* Migration of an entry from a later version than the current one fails.
MigrateFromFuture ==
    /\ entry.step = "migrate"
    /\ entry.version > CurrentVersion[1]
    /\ entry' = [entry EXCEPT !.state = "MIGRATION_ERROR", !.step = "done"]
    /\ UNCHANGED coordinator_vars

\* Variant of MigrateRemoveUniqueId: the unique_id is kept.
MigrateKeepUniqueId ==
    /\ entry.step = "migrate"
    /\ entry.version = 1
    /\ entry.minor_version = 1
    /\ entry' = [entry EXCEPT !.minor_version = 2]
    /\ UNCHANGED coordinator_vars

\* Migration to version 1.2 removes the unique_id.
MigrateRemoveUniqueId ==
    /\ entry.step = "migrate"
    /\ entry.version = 1
    /\ entry.minor_version = 1
    /\ entry' = [entry EXCEPT !.unique_id = "none", !.minor_version = 2]
    /\ UNCHANGED coordinator_vars

\* Variant of MigrateToSignatures: of several stations found the first is
\* taken.
MigrateToFirstSignature ==
    /\ entry.step = "migrate"
    /\ entry.version = 1
    /\ entry.minor_version = 2
    /\ entry' =
         IF entry.search \in {"one", "multiple"}
         THEN [entry EXCEPT !.data = [from |-> Signature(entry.data.from),
                                      to |-> Signature(entry.data.to)],
                            !.version = CurrentVersion[1],
                            !.minor_version = CurrentVersion[2],
                            !.step = "setup"]
         ELSE [entry EXCEPT !.state = "MIGRATION_ERROR", !.step = "done"]
    /\ UNCHANGED coordinator_vars

\* Migration to version 2.1 searches the from and to stations and stores
\* their signatures; it fails when a search raises or finds several
\* stations.
MigrateToSignatures ==
    /\ entry.step = "migrate"
    /\ entry.version = 1
    /\ entry.minor_version = 2
    /\ entry' =
         IF entry.search = "one"
         THEN [entry EXCEPT !.data = [from |-> Signature(entry.data.from),
                                      to |-> Signature(entry.data.to)],
                            !.version = CurrentVersion[1],
                            !.minor_version = CurrentVersion[2],
                            !.step = "setup"]
         ELSE [entry EXCEPT !.state = "MIGRATION_ERROR", !.step = "done"]
    /\ UNCHANGED coordinator_vars

\* Setup of an entry at the current version looks up its stations by
\* signature: InvalidAuthentication fails the setup and starts a reauth
\* flow, NoTrainStationFound makes it be retried later.
SetupStations ==
    /\ entry.step = "setup"
    /\ entry' =
         CASE entry.station = "ok" ->
                [entry EXCEPT !.step = "refresh"]
           [] entry.station = "InvalidAuthentication" ->
                [entry EXCEPT !.state = "SETUP_ERROR", !.step = "done"]
           [] entry.station = "NoTrainStationFound" ->
                [entry EXCEPT !.state = "SETUP_RETRY", !.step = "done"]
    /\ UNCHANGED coordinator_vars

\* Variant of FirstRefresh: the next train stops are fetched twice.
FirstRefreshTwice ==
    /\ entry.step = "refresh"
    /\ entry' = [entry EXCEPT !.stops_calls = @ + 2,
                              !.state = "LOADED", !.step = "done"]
    /\ UNCHANGED coordinator_vars

\* The first refresh fetches the next train stops, then the entry is loaded.
FirstRefresh ==
    /\ entry.step = "refresh"
    /\ entry' = [entry EXCEPT !.stops_calls = @ + 1,
                              !.state = "LOADED", !.step = "done"]
    /\ UNCHANGED coordinator_vars

\* assert await hass.config_entries.async_unload(entry.entry_id)
AsyncUnload ==
    /\ entry.step = "done"
    /\ entry.state = "LOADED"
    /\ entry' = [entry EXCEPT !.state = "NOT_LOADED", !.step = "unloaded",
                              !.unloaded = TRUE]
    /\ UNCHANGED coordinator_vars

TrainNext ==
    \/ AsyncSetup
    \/ MigrateFromFuture
    \/ MigrateRemoveUniqueId
    \/ MigrateToSignatures
    \/ SetupStations
    \/ FirstRefresh
    \/ AsyncUnload

TrainSpec == TrainInit /\ [][TrainNext]_vars

\* ======================================================================
\* Properties
\* ======================================================================

\* Events a cycle with history list h fires against baseline set b: one per
\* triple of h that is not in b.
ExpectedEvents(h, b) ==
    SetToBag({ EventData(d) : d \in ActualCompletedDownloads(h) \ b })

\* The refresh that submitted job c ended by the deadline.
TimedOut(c) == job[c].outcome = "failed" /\ job[c].error = Expired

\* The refresh that submitted job c ended because the client raised
\* NZBGetAPIException.
ClientFailed(c) ==
    /\ job[c].outcome = "failed"
    /\ job[c].error # Expired
    /\ job[c].exc = "NZBGetAPIException"

\* ---- C1 ----
\* C1: the first refresh that ends successfully, whatever failed before it,
\* has fired no event; and no event has been fired by anyone while
\* _completed_downloads_init is False.
C1_FirstSuccessFiresNothing ==
    /\ \A c \in Jobs :
         job[c].outcome = "success" /\ ~base.known
            => job[c].fired = EmptyBag
    /\ ~completed_downloads_init
            => \A c \in Jobs : job[c].fired = EmptyBag

\* ---- C2 ----
\* C2: a refresh that ends successfully after an earlier successful one has
\* fired exactly one event per triple of its history that is not a triple of
\* the previous successful history, and nothing else.
C2_EventsAreTheDifference ==
    \A c \in Jobs :
        job[c].outcome = "success" /\ base.known
            => job[c].fired = ExpectedEvents(job[c].history, base.triples)

\* ---- C3 ----
\* C3 (step): the step that ends a refresh whose job raised
\* NZBGetAPIException changes neither _completed_downloads, nor
\* _completed_downloads_init, nor the exposed data, and fires nothing.
C3_FailingStep ==
    \A c \in Jobs :
        /\ job[c].outcome = "waiting"
        /\ job[c].pc = "raised"
        /\ job[c].exc = "NZBGetAPIException"
        /\ job'[c].outcome = "failed"
        => /\ completed_downloads' = completed_downloads
           /\ completed_downloads_init' = completed_downloads_init
           /\ data' = data
           /\ \A d \in Jobs : job'[d].fired = job[d].fired

\* C3 (thread): a job that raised NZBGetAPIException, from status() or from
\* history() after status() returned, has assigned nothing to the retained
\* state and fired nothing.
C3_FailedJobDidNothing ==
    \A c \in Jobs :
        job[c].pc = "raised" /\ job[c].exc = "NZBGetAPIException"
            => job[c].writes = 0 /\ job[c].fired = EmptyBag

\* C3: a refresh that fails by the client error leaves RetainedSnapshot,
\* Initialized and the exposed CycleResult unchanged and emits no event.
C3_ClientErrorLeavesState ==
    []C3_FailedJobDidNothing /\ [][C3_FailingStep]_vars

\* C3 witness: history() raised after status() returned, in a refresh that
\* started with a baseline and an exposed result, and the refresh has failed.
C3_Witness ==
    \E c \in Jobs :
        /\ ClientFailed(c)
        /\ job[c].status \in StatusVals
        /\ job[c].calls.history = 1
        /\ completed_downloads_init
        /\ completed_downloads # {}
        /\ data # NoData

\* ---- C4 ----
\* C4: the job of a refresh that ended by the deadline has assigned nothing
\* to the retained state and fired nothing, at any later point.
C4_TimeoutLeavesState ==
    \A c \in Jobs :
        TimedOut(c) => job[c].writes = 0 /\ job[c].fired = EmptyBag

\* ---- C5 ----
\* C5: at most one thread is inside _update_data at any time.
C5_OneInFlight == Cardinality({ c \in Jobs : Running(c) }) <= 1

\* ---- C6 ----
\* C6: a refresh that fails because the client raised NZBGetAPIException
\* ends with UpdateFailed caused by that exception, and its job made no
\* remote call after the failing one.
C6_ClientErrorWrapped ==
    \A c \in Jobs :
        ClientFailed(c)
            => /\ job[c].error =
                    [kind |-> "UpdateFailed", cause |-> "NZBGetAPIException"]
               /\ job[c].pc = "raised"
               /\ job[c].calls.status = 1
               /\ job[c].calls.history =
                    (IF job[c].status = "none" THEN 0 ELSE 1)

\* C6 witness: a refresh failed by NZBGetAPIException from history().
C6_Witness ==
    \E c \in Jobs :
        /\ ClientFailed(c)
        /\ job[c].status \in StatusVals
        /\ job[c].calls.history = 1
        /\ job[c].error.kind = "UpdateFailed"

\* ---- C7 ----
\* C7: every failed refresh ends with the one error kind UpdateFailed,
\* carrying its cause.
C7_UniformFailure ==
    \A c \in Jobs :
        job[c].outcome = "failed"
            => job[c].error.kind = "UpdateFailed"
               /\ job[c].error.cause # "none"

\* ---- C8 ----
\* C8: a refresh is never pending past its deadline, so none is pending when
\* the next poll is due; one that ended while its job was still inside
\* _update_data ended as a failure by the deadline, and one that ended
\* successfully had both remote calls return.
C8_ResolvedByDeadline ==
    /\ loop = "waiting" => elapsed <= Timeout
    /\ elapsed >= Interval => loop = "idle"
    /\ \A c \in Jobs :
        /\ job[c].outcome \notin {"none", "waiting"} /\ Running(c)
              => TimedOut(c)
        /\ job[c].outcome = "success"
              => /\ job[c].pc = "returned"
                 /\ job[c].calls = [status |-> 1, history |-> 1]

\* C8 witness: the next poll is due, the last refresh has ended by its
\* deadline, and its job is still inside status().
C8_Witness ==
    /\ elapsed = Interval
    /\ loop = "idle"
    /\ \E c \in Jobs : TimedOut(c) /\ job[c].pc = "status"

\* ---- C9 ----
\* C9: the dict a job returns is the pair of the status and the history list
\* its own two calls returned; a job that has not returned has no dict; the
\* exposed data is empty or such a complete pair, and after a successful
\* refresh it is the dict of that refresh's job.
C9_CompleteResult ==
    /\ \A c \in Jobs :
        /\ job[c].pc = "returned"
              => /\ job[c].retval =
                        [status |-> job[c].status,
                         downloads |-> job[c].history]
                 /\ job[c].status \in StatusVals
                 /\ job[c].calls = [status |-> 1, history |-> 1]
        /\ job[c].pc # "returned" => job[c].retval = NoData
        /\ job[c].outcome = "success" => data = job[c].retval
    /\ data # NoData
          => data.status \in StatusVals /\ data.downloads \in Histories

\* C9 witness: a second successful refresh exposes a two-item history that
\* differs from the previous baseline.
C9_Witness ==
    \E c \in Jobs :
        /\ job[c].outcome = "success"
        /\ base.known
        /\ Len(data.downloads) = 2
        /\ data.downloads[1] = data.downloads[2]
        /\ ActualCompletedDownloads(data.downloads) # base.triples

\* ---- C10 ----
\* C10: from the end of a successful refresh until the next one starts,
\* _completed_downloads is exactly the set of triples of that refresh's
\* history list.
C10_SnapshotReplaced ==
    \A c \in Jobs :
        job[c].outcome = "success"
            => completed_downloads = ActualCompletedDownloads(job[c].history)

\* ---- C11 ----
\* C11 (state): _completed_downloads_init is False until the first refresh
\* starts, and True once any refresh has ended successfully.
C11_InitState ==
    /\ current = 0 => ~completed_downloads_init
    /\ data # NoData => completed_downloads_init
    /\ \A c \in Jobs :
         job[c].outcome = "success" => completed_downloads_init

\* C11: Initialized starts false, is true in every state after the first
\* successful refresh (also one with an empty history), and never goes from
\* true back to false.
C11_InitializedForGood ==
    /\ ~completed_downloads_init
    /\ []C11_InitState
    /\ [][completed_downloads_init => completed_downloads_init']_vars

\* C11 witness: the first successful refresh returned an empty history and
\* the flag is set.
C11_Witness ==
    \E c \in Jobs :
        /\ job[c].outcome = "success"
        /\ ~base.known
        /\ job[c].history = <<>>
        /\ completed_downloads_init

\* ---- C12 ----
\* C12: a job has fired at most one event per distinct triple, however often
\* the triple occurs in its history list.
C12_DuplicatesCollapse ==
    \A c \in Jobs :
        \A d \in ActualCompletedDownloads(job[c].history) :
            CopiesIn(EventData(d), job[c].fired) <= 1

\* C12 witness: a successful refresh whose history holds the same item twice
\* has fired its event once.
C12_Witness ==
    \E c \in Jobs :
        /\ job[c].outcome = "success"
        /\ Len(job[c].history) = 2
        /\ job[c].history[1] = job[c].history[2]
        /\ CopiesIn(EventData(TripleOf(job[c].history[1])), job[c].fired) = 1

\* ---- C13 ----
\* The migration of the entry cannot complete: it was created at a later
\* version than the current one, or at version 1 with a station search
\* that raises or returns several stations.
MigrationCannotComplete ==
    \/ entry.created.version[1] > CurrentVersion[1]
    \/ entry.created.version[1] = 1 /\ entry.search # "one"

\* C13: an entry whose migration cannot complete is never LOADED, and when
\* its setup has ended it is in state MIGRATION_ERROR.
C13_MigrationError ==
    MigrationCannotComplete
        => /\ entry.state # "LOADED"
           /\ entry.step \notin {"setup", "refresh", "unloaded"}
           /\ entry.step = "done" => entry.state = "MIGRATION_ERROR"

\* C13 witness: the setup of a version 1.1 entry whose search returned
\* several stations has ended in MIGRATION_ERROR.
C13_Witness ==
    /\ entry.created.version = <<1, 1>>
    /\ entry.search = "multiple"
    /\ entry.step = "done"
    /\ entry.state = "MIGRATION_ERROR"

\* ---- C14 ----
\* C14: an entry is LOADED only at version 2.1; a version 1.1 entry whose
\* search and lookup succeed ends its setup LOADED at version 2.1 with the
\* station signatures as from and to and without unique_id.
C14_MigratedBeforeLoaded ==
    /\ entry.state = "LOADED"
         => <<entry.version, entry.minor_version>> = CurrentVersion
    /\ /\ entry.created.version = <<1, 1>>
       /\ entry.search = "one"
       /\ entry.station = "ok"
       /\ entry.step = "done"
       => /\ entry.state = "LOADED"
          /\ entry.version = 2
          /\ entry.minor_version = 1
          /\ entry.data = [from |-> "Cst", to |-> "U"]
          /\ entry.unique_id = "none"

\* C14 witness: a version 1.1 entry created with unique_id "321" is LOADED.
C14_Witness ==
    /\ entry.created = [version |-> <<1, 1>>, unique_id |-> "321"]
    /\ entry.step = "done"
    /\ entry.state = "LOADED"

\* ---- C15 ----
\* C15: the setup of a version 2.1 entry ends LOADED after one fetch of the
\* next train stops when the station lookup succeeds, in SETUP_ERROR on
\* InvalidAuthentication and in SETUP_RETRY on NoTrainStationFound; an
\* unloaded entry was LOADED, its unload returned true and it is
\* NOT_LOADED.
C15_SetupByLookup ==
    entry.created.version = CurrentVersion
        => /\ entry.step = "done"
             => /\ entry.station = "ok"
                  => entry.state = "LOADED" /\ entry.stops_calls = 1
                /\ entry.station = "InvalidAuthentication"
                  => entry.state = "SETUP_ERROR"
                /\ entry.station = "NoTrainStationFound"
                  => entry.state = "SETUP_RETRY"
           /\ entry.state = "LOADED" => entry.station = "ok"
           /\ entry.step = "unloaded"
                => /\ entry.unloaded
                   /\ entry.state = "NOT_LOADED"
                   /\ entry.stops_calls = 1

\* C15 witness: a version 2.1 entry was loaded after one fetch and has been
\* unloaded.
C15_Witness ==
    /\ entry.created.version = CurrentVersion
    /\ entry.step = "unloaded"
    /\ entry.state = "NOT_LOADED"
    /\ entry.stops_calls = 1

\* ---- C16 ----
\* Calls of job c made so far: those that ended and the one in progress.
StatusInvoked(c) ==
    job[c].calls.status + (IF job[c].pc = "status" THEN 1 ELSE 0)

HistoryInvoked(c) ==
    job[c].calls.history + (IF job[c].pc = "history" THEN 1 ELSE 0)

\* C16: a job calls status() exactly once and history() at most once, only
\* after status() has returned; after a call has raised no call follows.
C16_NoRetry ==
    \A c \in Jobs :
        job[c].pc # "free"
            => /\ StatusInvoked(c) = 1
               /\ HistoryInvoked(c) <= 1
               /\ HistoryInvoked(c) = 1 => job[c].calls.status = 1
               /\ job[c].pc = "raised" /\ job[c].status = "none"
                    => HistoryInvoked(c) = 0

\* C16 witness: status() raised, the refresh has failed, and history() was
\* never called.
C16_Witness ==
    \E c \in Jobs :
        /\ job[c].pc = "raised"
        /\ job[c].status = "none"
        /\ job[c].outcome = "failed"
        /\ job[c].calls = [status |-> 1, history |-> 0]

\* ---- C17 ----
\* C17: while the job of a pending refresh is publishing its events,
\* _completed_downloads still is the set of the previous successful poll and
\* the exposed data still is that poll's result; the job has not assigned
\* the retained state and has not returned.
C17_EventsBeforeReplacement ==
    \A c \in Jobs :
        job[c].pc = "fire" /\ job[c].outcome = "waiting"
            => /\ job[c].writes = 0
               /\ job[c].retval = NoData
               /\ Baseline(data) = base
               /\ completed_downloads = base.triples

\* ---- C18 ----
\* C18: when the two refreshes before the latest one succeeded, the first
\* (not the first success of all) with Watched in its history and the
\* second without it, and the latest
\* one succeeded with Watched in its history again, the latest one fired
\* exactly one event for Watched.
C18_ReappearingReported ==
    \A c \in Jobs :
        /\ c = current
        /\ job[c].outcome = "success"
        /\ streak = "lost"
        /\ Watched \in ActualCompletedDownloads(job[c].history)
        => CopiesIn(EventData(Watched), job[c].fired) = 1

====
